---- MODULE Spec2Model ----
(***************************************************************************)
(* markdown-test-report: a stream of JSON test events is decoded line by   *)
(* line (event.rs), aggregated by a Processor and rendered as Markdown     *)
(* when the Processor is dropped.                                          *)
(*                                                                         *)
(* The sources hold two revisions of the Processor: the one the crate root *)
(* main.rs defines and main() constructs, and the one of processor.rs.     *)
(* Both are modelled; the variable impl says which one a run uses.         *)
(***************************************************************************)
EXTENDS Integers, Sequences, FiniteSets, TLC

VARIABLES
    impl,        \* "main" (Processor of main.rs) or "processor" (processor.rs)
    options,     \* ProcessOptions
    tests,       \* Processor.tests: Vec<test::Event>
    test_count,  \* Processor.test_count: Option<u64>
    summary,     \* Processor.summary: Option<Summary>
    write,       \* Processor.write: what the output sink holds, one item per writeln!
    pc,          \* "loop": main's line loop; "done": dropped; "aborted": drop panicked
    exit,        \* how the line loop ended: "none", "eof", "read_error", "panic"
    ret,         \* what the last call of line()/record() returned
    ingested,    \* history: the records handed to record(), in order
    calls,       \* history: number of line()/record() calls made
    env,         \* the environment write_header read: GITHUB_RUN_ID / GITHUB_REPOSITORY
    repo_state,  \* what the git addon found at its path when it rendered
    addon_calls, \* history: number of Addon::render calls the drop made
    sink_fault,  \* the fault the output sink holds, "none" for a sound sink
    panic_msg,   \* the message of the .expect() the drop panicked with, or "none"
    anchor_in,   \* the argument of a make_anchor call made on its own
    anchor_out,  \* what that call returned, None before it
    anchor_again,\* what make_anchor returned for that result, None before it
    fmt_in,      \* the arguments of two format_duration calls made on their own
    fmt_out      \* what the two calls returned, None before them

\* the variables of a run of main, and those of the calls made on their own
run_vars == <<impl, options, tests, test_count, summary, write, pc, exit, ret,
              ingested, calls, env, repo_state, addon_calls, sink_fault, panic_msg>>
call_vars == <<anchor_in, anchor_out, anchor_again, fmt_in, fmt_out>>

vars == <<run_vars, call_vars>>

agg == <<tests, test_count, summary>>

(***************************************************************************)
(* Bounds                                                                  *)
(***************************************************************************)
MaxLines == 2
MaxAnchorLen == 3

(***************************************************************************)
(* Option<T>                                                               *)
(***************************************************************************)
None == <<>>
Some(v) == <<v>>
is_some(o) == o # <<>>
unwrap(o) == o[1]

(***************************************************************************)
(* Characters and strings. A string is a sequence of characters.           *)
(***************************************************************************)
CheckMark == "U+2705"
CrossMark == "U+274C"

Alphanumeric == {"a", "b", "f", "o", "r", "t", "B", "1"}

Chars == Alphanumeric \cup {"_", " ", "-", ":", "<", CheckMark, CrossMark}

is_alphanumeric(c) == c \in Alphanumeric

(***************************************************************************)
(* std::time::Duration: whole seconds and nanoseconds below one second.    *)
(***************************************************************************)
NANOS_PER_SEC == 1000 * 1000 * 1000
NANOS_PER_MILLI == 1000 * 1000

Duration(s, n) == [secs |-> s, nanos |-> n]

\* Duration::from_secs_f64 of a JSON number given in thousandths of a second
from_secs_f64(ms) == Duration(ms \div 1000, (ms % 1000) * NANOS_PER_MILLI)

\* Duration += Duration
add_duration(a, b) ==
    LET n == a.nanos + b.nanos
    IN  IF n >= NANOS_PER_SEC
        THEN Duration(a.secs + b.secs + 1, n - NANOS_PER_SEC)
        ELSE Duration(a.secs + b.secs, n)

as_secs(d) == d.secs

(***************************************************************************)
(* event.rs: the decoded events                                            *)
(***************************************************************************)
TestStarted(n) == [type |-> "test", event |-> "started", name |-> n]
TestOk(n, t) == [type |-> "test", event |-> "ok", name |-> n, exec_time |-> t]
TestFailed(n, t, o) ==
    [type |-> "test", event |-> "failed", name |-> n, exec_time |-> t, stdout |-> o]

SuiteStarted(c) == [type |-> "suite", event |-> "started", test_count |-> c]
SuiteOk(p, f, a, i, o, t) ==
    [type |-> "suite", event |-> "ok", passed |-> p, failed |-> f, allowed_fail |-> a,
     ignored |-> i, filtered_out |-> o, exec_time |-> t]
SuiteFailed(p, f, a, i, o, t) ==
    [type |-> "suite", event |-> "failed", passed |-> p, failed |-> f, allowed_fail |-> a,
     ignored |-> i, filtered_out |-> o, exec_time |-> t]

(***************************************************************************)
(* The input: JSON values and lines                                        *)
(***************************************************************************)
JU64(n) == [j |-> "u64", n |-> n]
JF64(ms) == [j |-> "f64", ms |-> ms]      \* a float, in thousandths
JStr(s) == [j |-> "str", s |-> s]

NotJson == [json |-> FALSE]
JsonLine(t, e, b) == [json |-> TRUE, type |-> t, event |-> e, body |-> b]

NameA == <<"t", ":", ":", "a">>
NameB == <<"a", " ", " ", "B">>
Boom == <<"b", "<">>

SuiteBody1 ==
    [passed |-> JU64(1), failed |-> JU64(0), allowed_fail |-> JU64(0),
     ignored |-> JU64(2), filtered_out |-> JU64(0), exec_time |-> JF64(1700)]
SuiteBody2 ==
    [passed |-> JU64(2), failed |-> JU64(1), allowed_fail |-> JU64(0),
     ignored |-> JU64(0), filtered_out |-> JU64(3), exec_time |-> JF64(600)]

\* lines of the six type/event tags, every field as the test harness writes it
WellFormedLines ==
    { JsonLine("suite", "started", [test_count |-> JU64(3)]),
      JsonLine("suite", "started", [test_count |-> JU64(4)]),
      JsonLine("suite", "ok", SuiteBody1),
      JsonLine("suite", "failed", SuiteBody2),
      JsonLine("test", "started", [name |-> JStr(NameA)]),
      JsonLine("test", "ok", [name |-> JStr(NameA), exec_time |-> JF64(1500)]),
      JsonLine("test", "failed",
               [name |-> JStr(NameB), exec_time |-> JF64(200), stdout |-> JStr(Boom)]),
      JsonLine("test", "failed", [name |-> JStr(NameA), exec_time |-> JF64(1500)]) }

\* other lines: no JSON, a tag in another case, a tag of no variant, an
\* exec_time that is an integer, a negative exec_time
OtherLines ==
    { NotJson,
      JsonLine("Suite", "failed", SuiteBody2),
      JsonLine("test", "ignored", [name |-> JStr(NameB)]),
      JsonLine("bench", "ok", [name |-> JStr(NameB), exec_time |-> JF64(200)]),
      JsonLine("test", "ok", [name |-> JStr(NameA), exec_time |-> JU64(1)]),
      JsonLine("test", "ok", [name |-> JStr(NameA), exec_time |-> JF64(-1500)]) }

\* the lines main's loop may read
Lines == WellFormedLines \cup OtherLines

\* the events record() may be handed
Records ==
    { SuiteStarted(3), SuiteStarted(4),
      SuiteOk(1, 0, 0, 2, 0, from_secs_f64(1700)),
      SuiteFailed(2, 1, 0, 0, 3, from_secs_f64(600)),
      TestStarted(NameA),
      TestOk(NameA, from_secs_f64(1500)),
      TestFailed(NameB, from_secs_f64(200), Boom),
      TestFailed(NameA, from_secs_f64(1500), <<>>) }

(***************************************************************************)
(* event.rs: decoding a line (serde_json::from_str::<Record>)              *)
(***************************************************************************)
DecodeOk(r) == [res |-> "ok", record |-> r]
DecodeErr == [res |-> "err"]
DecodePanic == [res |-> "panic"]

has(b, f, j) == f \in DOMAIN b /\ b[f].j = j

\* from_duration: only visit_f64 is implemented, so only a float is accepted;
\* Duration::from_secs_f64 panics on a negative number
from_duration(v) ==
    IF v.j # "f64" THEN DecodeErr
    ELSE IF v.ms < 0 THEN DecodePanic
    ELSE DecodeOk(from_secs_f64(v.ms))

suite_Event(e, b) ==
    IF e = "started" THEN
        IF has(b, "test_count", "u64")
        THEN DecodeOk(SuiteStarted(b.test_count.n)) ELSE DecodeErr
    ELSE IF e = "failed" THEN
        IF /\ \A f \in {"passed", "failed", "allowed_fail", "ignored", "filtered_out"} :
                 has(b, f, "u64")
           /\ "exec_time" \in DOMAIN b
        THEN LET t == from_duration(b.exec_time)
             IN  IF t.res = "ok"
                 THEN DecodeOk(SuiteFailed(b.passed.n, b.failed.n, b.allowed_fail.n,
                                           b.ignored.n, b.filtered_out.n, t.record))
                 ELSE t
        ELSE DecodeErr
    ELSE DecodeErr      \* no other variant: "ok" is not one of suite::Event

test_Event(e, b) ==
    IF ~has(b, "name", "str") THEN DecodeErr
    ELSE IF e = "started" THEN DecodeOk(TestStarted(b.name.s))
    ELSE IF e \in {"ok", "failed"} THEN
        IF "exec_time" \notin DOMAIN b THEN DecodeErr
        ELSE LET t == from_duration(b.exec_time)
             IN  IF t.res # "ok" THEN t
                 ELSE IF e = "ok" THEN DecodeOk(TestOk(b.name.s, t.record))
                 ELSE IF "stdout" \notin DOMAIN b             \* #[serde(default)]
                      THEN DecodeOk(TestFailed(b.name.s, t.record, <<>>))
                 ELSE IF b.stdout.j = "str"
                      THEN DecodeOk(TestFailed(b.name.s, t.record, b.stdout.s))
                 ELSE DecodeErr
    ELSE DecodeErr

from_str(l) ==
    IF ~l.json THEN DecodeErr
    ELSE IF l.type = "suite" THEN suite_Event(l.event, l.body)
    ELSE IF l.type = "test" THEN test_Event(l.event, l.body)
    ELSE DecodeErr

(***************************************************************************)
(* processor.rs: the aggregation state and its ingestion                   *)
(***************************************************************************)
Ok == "Ok"
Failed == "Failed"

Summary(o, p, f, i, x, t) ==
    [outcome |-> o, passed |-> p, failed |-> f, ignored |-> i, filtered_out |-> x,
     exec_time |-> t]

\* the fields of a Processor that ingestion works on
State(ts, tc, sm) == [tests |-> ts, test_count |-> tc, summary |-> sm]

\* Processor::new
new == State(<<>>, None, None)

\* a faulty variant: a suite that starts clears the tests recorded before it
record_suite_started_clears(st, count) ==
    [st EXCEPT !.tests = <<>>,
               !.test_count =
                   IF is_some(st.test_count) THEN Some(unwrap(st.test_count) + count)
                   ELSE Some(count)]

record_suite_started(st, count) ==
    [st EXCEPT !.test_count =
        IF is_some(st.test_count) THEN Some(unwrap(st.test_count) + count)
        ELSE Some(count)]

record_suite_ok(st, passed, failed, ignored, filtered_out, exec_time) ==
    IF is_some(st.summary)
    THEN LET s == unwrap(st.summary)
         IN  [st EXCEPT !.summary = Some(Summary(
                 IF s.outcome = Failed THEN Failed ELSE Ok,
                 s.passed + passed, s.failed + failed, s.ignored + ignored,
                 s.filtered_out + filtered_out, add_duration(s.exec_time, exec_time)))]
    ELSE [st EXCEPT !.summary =
             Some(Summary(Ok, passed, failed, ignored, filtered_out, exec_time))]

\* a faulty variant: a Failed suite event is merged only into a summary that exists
record_suite_failed_merge_only(st, passed, failed, ignored, filtered_out, exec_time) ==
    IF is_some(st.summary)
    THEN LET s == unwrap(st.summary)
         IN  [st EXCEPT !.summary = Some(Summary(
                 Failed,
                 s.passed + passed, s.failed + failed, s.ignored + ignored,
                 s.filtered_out + filtered_out, add_duration(s.exec_time, exec_time)))]
    ELSE st

record_suite_failed(st, passed, failed, ignored, filtered_out, exec_time) ==
    IF is_some(st.summary)
    THEN LET s == unwrap(st.summary)
         IN  [st EXCEPT !.summary = Some(Summary(
                 Failed,
                 s.passed + passed, s.failed + failed, s.ignored + ignored,
                 s.filtered_out + filtered_out, add_duration(s.exec_time, exec_time)))]
    ELSE [st EXCEPT !.summary =
             Some(Summary(Failed, passed, failed, ignored, filtered_out, exec_time))]

\* Processor::record of processor.rs
record(st, r) ==
    IF r.type = "test" THEN [st EXCEPT !.tests = Append(st.tests, r)]
    ELSE IF r.event = "started" THEN record_suite_started(st, r.test_count)
    ELSE IF r.event = "ok"
         THEN record_suite_ok(st, r.passed, r.failed, r.ignored, r.filtered_out,
                              r.exec_time)
    ELSE record_suite_failed(st, r.passed, r.failed, r.ignored, r.filtered_out,
                             r.exec_time)

(***************************************************************************)
(* main.rs: the ingestion of the Processor the crate root defines          *)
(***************************************************************************)
main_record(st, r) ==
    IF r.type = "test" THEN [st EXCEPT !.tests = Append(st.tests, r)]
    ELSE IF r.event = "started" THEN [st EXCEPT !.test_count = Some(r.test_count)]
    ELSE IF r.event = "ok"
         THEN [st EXCEPT !.summary = Some(Summary(Ok, r.passed, r.failed, r.ignored,
                                                   r.filtered_out, r.exec_time))]
    ELSE [st EXCEPT !.summary = Some(Summary(Failed, r.passed, r.failed, r.ignored,
                                              r.filtered_out, r.exec_time))]

\* the record() of the revision in use
do_record(i, st, r) == IF i = "main" THEN main_record(st, r) ELSE record(st, r)

\* a faulty variant: a decode error is returned to the caller
line_err_returned(i, st, l) ==
    LET d == from_str(l)
    IN  IF d.res = "ok"
        THEN [state |-> do_record(i, st, d.record), out |-> <<>>, ret |-> "Ok"]
        ELSE IF d.res = "err" THEN [state |-> st, out |-> <<>>, ret |-> "Err"]
        ELSE [state |-> st, out |-> <<>>, ret |-> "panic"]

\* a faulty variant: the line that is skipped is written to the sink, not to the log
line_skipped_to_sink(i, st, l) ==
    LET d == from_str(l)
    IN  IF d.res = "ok"
        THEN [state |-> do_record(i, st, d.record), out |-> <<>>, ret |-> "Ok"]
        ELSE IF d.res = "err"
        THEN [state |-> st, out |-> <<[sec |-> "log", kind |-> "ignoring"]>>, ret |-> "Ok"]
        ELSE [state |-> st, out |-> <<>>, ret |-> "panic"]

\* Processor::line (the same text in both revisions): what it does to the
\* state, what it writes to the sink and what it returns
line(i, st, l) ==
    LET d == from_str(l)
    IN  IF d.res = "ok"
        THEN [state |-> do_record(i, st, d.record), out |-> <<>>, ret |-> "Ok"]
        ELSE IF d.res = "err" THEN [state |-> st, out |-> <<>>, ret |-> "Ok"]
        ELSE [state |-> st, out |-> <<>>, ret |-> "panic"]

(***************************************************************************)
(* processor.rs: make_anchor                                               *)
(***************************************************************************)
\* a faulty variant: a dropped character clears the dash flag
RECURSIVE anchor_chars_flag_cleared(_, _, _)
anchor_chars_flag_cleared(link, s, was_dash) ==
    IF link = <<>> THEN s
    ELSE LET c == Head(link)
         IN  IF c = "_" THEN anchor_chars_flag_cleared(Tail(link), Append(s, c), FALSE)
             ELSE IF c = " " \/ c = "-"
                  THEN IF ~was_dash
                       THEN anchor_chars_flag_cleared(Tail(link), Append(s, "-"), TRUE)
                       ELSE anchor_chars_flag_cleared(Tail(link), s, was_dash)
             ELSE IF is_alphanumeric(c)
                  THEN anchor_chars_flag_cleared(Tail(link), Append(s, c), FALSE)
             ELSE anchor_chars_flag_cleared(Tail(link), s, FALSE)

RECURSIVE anchor_chars(_, _, _)
anchor_chars(link, s, was_dash) ==
    IF link = <<>> THEN s
    ELSE LET c == Head(link)
         IN  IF c = "_" THEN anchor_chars(Tail(link), Append(s, c), FALSE)
             ELSE IF c = " " \/ c = "-"
                  THEN IF ~was_dash
                       THEN anchor_chars(Tail(link), Append(s, "-"), TRUE)
                       ELSE anchor_chars(Tail(link), s, was_dash)
             ELSE IF is_alphanumeric(c)
                  THEN anchor_chars(Tail(link), Append(s, c), FALSE)
             ELSE anchor_chars(Tail(link), s, was_dash)

\* a faulty variant: let mut was_dash = true
make_anchor_dash_pending(link) == anchor_chars(link, <<>>, TRUE)

make_anchor_flag_cleared(link) == anchor_chars_flag_cleared(link, <<>>, FALSE)

make_anchor(link) == anchor_chars(link, <<>>, FALSE)

(***************************************************************************)
(* Durations as text                                                       *)
(***************************************************************************)
\* impl Debug for Duration ("{:?}"): the largest unit that gives a whole part,
\* and the fraction below it (printed without trailing zeros)
debug_duration(d) ==
    IF d.secs > 0
    THEN [fmt |-> "debug", whole |-> d.secs, frac |-> d.nanos, unit |-> "s"]
    ELSE IF d.nanos >= 1000 * 1000
    THEN [fmt |-> "debug", whole |-> d.nanos \div (1000 * 1000),
          frac |-> d.nanos % (1000 * 1000), unit |-> "ms"]
    ELSE IF d.nanos >= 1000
    THEN [fmt |-> "debug", whole |-> d.nanos \div 1000, frac |-> d.nanos % 1000,
          unit |-> "us"]
    ELSE [fmt |-> "debug", whole |-> d.nanos, frac |-> 0, unit |-> "ns"]

\* one "<n><unit>" item of humantime, nothing for zero
item(n, unit) == IF n > 0 THEN <<[n |-> n, unit |-> unit]>> ELSE <<>>
item_plural(n, unit) ==
    IF n > 1 THEN <<[n |-> n, unit |-> unit \o "s"]>> ELSE item(n, unit)

\* humantime::format_duration of whole seconds
humantime_format_duration(secs) ==
    IF secs = 0 THEN [fmt |-> "human", items |-> <<[n |-> 0, unit |-> "s"]>>]
    ELSE LET years == secs \div 31557600
             ydays == secs % 31557600
             months == ydays \div 2630016
             mdays == ydays % 2630016
             days == mdays \div 86400
             day_secs == mdays % 86400
         IN  [fmt |-> "human",
              items |-> item_plural(years, "year") \o item_plural(months, "month")
                        \o item_plural(days, "day") \o item(day_secs \div 3600, "h")
                        \o item((day_secs % 3600) \div 60, "m")
                        \o item(day_secs % 60, "s")]

\* a faulty variant: the duration is handed to humantime as it is, which
\* prints the milliseconds too
format_duration_untruncated(opts, duration) ==
    IF opts.precise THEN debug_duration(duration)
    ELSE [fmt |-> "human",
          items |-> humantime_format_duration(as_secs(duration)).items
                    \o item(duration.nanos \div NANOS_PER_MILLI, "ms")]

\* Processor::format_duration of processor.rs
format_duration(opts, duration) ==
    IF opts.precise THEN debug_duration(duration)
    ELSE humantime_format_duration(as_secs(duration))

(***************************************************************************)
(* The output sink: one item per writeln!                                  *)
(***************************************************************************)
Glyph(outcome) == IF outcome = Ok THEN CheckMark ELSE CrossMark

Blank(sec) == [sec |-> sec, kind |-> "blank"]
Text(sec, kind) == [sec |-> sec, kind |-> kind]

\* The sink is sound ("none") or holds one fault: the next write of an item
\* of the section it names returns an io::Error; the writes after it succeed
\* again. "header" is the <!-- more --> line main.rs ends its header with.
SinkFaults == {"none", "front", "summary", "addon", "job", "header", "index", "details"}

\* a rendering step: what it wrote, whether it returned Ok(()), and the sink
\* it leaves
Wrote(out, w) == [ok |-> TRUE, out |-> out, sink |-> w]
Broke(out, w) == [ok |-> FALSE, out |-> out, sink |-> w]

\* let v = ..; evaluated once
Let(v, F(_)) == CHOOSE x \in {F(y) : y \in {v}} : TRUE

\* writeln!(write, ..)?; one after the other for the items, on the sink w
writeln(w, items) ==
    Let(<<w, items>>, LAMBDA a :
        LET hit == {k \in DOMAIN a[2] : a[2][k].sec = a[1]}
        IN  IF hit = {} THEN Wrote(a[2], a[1])
            ELSE Let(CHOOSE k \in hit : \A j \in hit : k <= j, LAMBDA k :
                     Broke(SubSeq(a[2], 1, k - 1), "none")))

\* a step, and when it returned Ok(()) the writes that follow it
and_then(r, items) ==
    Let(r, LAMBDA a :
        IF ~a.ok THEN a
        ELSE Let(writeln(a.sink, items), LAMBDA x :
                 [ok |-> x.ok, out |-> a.out \o x.out, sink |-> x.sink]))

(***************************************************************************)
(* git.rs: the GitInfo addon                                               *)
(***************************************************************************)
\* what GitInfo may find at its path
RepoStates == {"no_repo", "no_remote", "no_head", "no_target", "no_commit", "commit"}

render_commit ==
    << Text("addon", "commit_id"), Text("addon", "commit_author"),
       Text("addon", "commit_date"), Blank("addon"), Text("addon", "commit_message") >>

render_git(repo, w) ==
    IF repo = "no_repo" THEN Broke(<<>>, w)           \* Repository::open(..)?
    ELSE IF repo = "no_remote" THEN Broke(<<>>, w)    \* repo.find_remote("origin")?
    ELSE IF repo = "no_head" THEN Broke(<<>>, w)      \* repo.head()? in the arguments
    ELSE Let(writeln(w, << Text("addon", "git"), Blank("addon") >>), LAMBDA git :
             IF ~git.ok THEN git
             ELSE IF repo = "no_commit"               \* repo.find_commit(id)?
             THEN Broke(git.out, git.sink)
             ELSE IF repo = "no_target" THEN git
             ELSE and_then(git, render_commit))

\* a faulty variant: the required flag is not looked at
render_required_ignored(addon, repo, w) ==
    Let(render_git(repo, w), LAMBDA r : Wrote(r.out, r.sink))

\* impl Addon for GitInfo
render(addon, repo, w) ==
    Let(render_git(repo, w), LAMBDA r :
        IF ~r.ok /\ addon.required THEN r ELSE Wrote(r.out, r.sink))

\* a faulty variant: the addons are not rendered at all
render_addons_none(addons, repo, w) ==
    [ok |-> TRUE, out |-> <<>>, sink |-> w, rendered |-> 0]

\* for addon in &self.options.addons { addon.render(..)?; writeln!(..)?; }
RECURSIVE render_addons(_, _, _)
render_addons(addons, repo, w) ==
    IF addons = <<>> THEN [ok |-> TRUE, out |-> <<>>, sink |-> w, rendered |-> 0]
    ELSE Let(and_then(render(Head(addons), repo, w), <<Blank("addon")>>), LAMBDA r :
             IF ~r.ok THEN [ok |-> FALSE, out |-> r.out, sink |-> r.sink, rendered |-> 1]
             ELSE Let(render_addons(Tail(addons), repo, r.sink), LAMBDA rest :
                      [ok |-> rest.ok, out |-> r.out \o rest.out, sink |-> rest.sink,
                       rendered |-> 1 + rest.rendered]))

(***************************************************************************)
(* processor.rs: rendering                                                 *)
(***************************************************************************)
\* the environment variables write_header reads
Envs == [run_id : BOOLEAN, repository : BOOLEAN]

\* self.test_count.map(|total| total.to_string()).unwrap_or("*unknown*")
total(st) ==
    IF is_some(st.test_count) THEN [text |-> "number", n |-> unwrap(st.test_count)]
    ELSE [text |-> "*unknown*", n |-> 0]

\* a faulty variant: the title ends with the run id, or a placeholder for it
front_matter_run_id(s, e) ==
    << Text("front", "---"),
       [sec |-> "front", kind |-> "title", glyph |-> Glyph(s.outcome),
        text |-> "Test Result",
        suffix |-> IF e.run_id THEN "GITHUB_RUN_ID" ELSE "placeholder"],
       [sec |-> "front", kind |-> "date", date |-> "Utc::now"],
       Text("front", "categories"), Text("front", "excerpt_separator"),
       Text("front", "---"), Blank("front") >>

\* the if !self.options.disable_front_matter block; run_id, repo and date are
\* the locals in scope, the title is formatted from summary.outcome and date
front_matter(s, e) ==
    << Text("front", "---"),
       [sec |-> "front", kind |-> "title", glyph |-> Glyph(s.outcome),
        text |-> "Test Result", suffix |-> "Utc::now"],
       [sec |-> "front", kind |-> "date", date |-> "Utc::now"],
       Text("front", "categories"), Text("front", "excerpt_separator"),
       Text("front", "---"), Blank("front") >>

\* a faulty variant: one of the two variables is enough for a link
job_link_either(e) ==
    IF e.repository \/ e.run_id
    THEN << [sec |-> "job", kind |-> "link", repository |-> e.repository,
             run_id |-> e.run_id],
            Blank("job") >>
    ELSE <<>>

job_link(e) ==
    IF e.repository /\ e.run_id
    THEN << [sec |-> "job", kind |-> "link", repository |-> TRUE, run_id |-> TRUE],
            Blank("job") >>
    ELSE <<>>

table(st, s, duration) ==
    << [sec |-> "summary", kind |-> "table", glyph |-> Glyph(s.outcome),
        total |-> total(st), passed |-> s.passed, failed |-> s.failed,
        ignored |-> s.ignored, filtered_out |-> s.filtered_out, duration |-> duration],
       Blank("summary") >>

\* a faulty variant: the disable_front_matter option is not looked at
write_header_front_always(st, opts, s, e, repo, w) ==
    Let(writeln(w, front_matter(s, e)
                   \o table(st, s, format_duration(opts, s.exec_time))),
        LAMBDA head :
            IF ~head.ok
            THEN [ok |-> FALSE, out |-> head.out, sink |-> head.sink, rendered |-> 0]
            ELSE Let(render_addons(opts.addons, repo, head.sink), LAMBDA a :
                     Let(and_then(a, job_link(e)),
                         LAMBDA l :
                             [ok |-> l.ok, out |-> head.out \o l.out, sink |-> l.sink,
                              rendered |-> a.rendered])))

\* a faulty variant: the job link is written before the addons are rendered
write_header_link_first(st, opts, s, e, repo, w) ==
    Let(writeln(w, (IF ~opts.disable_front_matter THEN front_matter(s, e) ELSE <<>>)
                   \o table(st, s, format_duration(opts, s.exec_time)) \o job_link(e)),
        LAMBDA head :
            IF ~head.ok
            THEN [ok |-> FALSE, out |-> head.out, sink |-> head.sink, rendered |-> 0]
            ELSE Let(render_addons(opts.addons, repo, head.sink), LAMBDA a :
                     Let(and_then(a, <<>>),
                         LAMBDA l :
                             [ok |-> l.ok, out |-> head.out \o l.out, sink |-> l.sink,
                              rendered |-> a.rendered])))

write_header(st, opts, s, e, repo, w) ==
    Let(writeln(w, (IF ~opts.disable_front_matter THEN front_matter(s, e) ELSE <<>>)
                   \o table(st, s, format_duration(opts, s.exec_time))),
        LAMBDA head :
            IF ~head.ok
            THEN [ok |-> FALSE, out |-> head.out, sink |-> head.sink, rendered |-> 0]
            ELSE Let(render_addons(opts.addons, repo, head.sink), LAMBDA a :
                     Let(and_then(a, job_link(e)),
                         LAMBDA l :
                             [ok |-> l.ok, out |-> head.out \o l.out, sink |-> l.sink,
                              rendered |-> a.rendered])))

make_linked_name(name) == [text |-> name, target |-> make_anchor(name)]

make_heading_title(name, outcome) == <<outcome, " ">> \o name

make_heading(name, outcome) ==
    [title |-> make_heading_title(name, outcome), id |-> Some(make_anchor(name))]

\* askama_escape::escape(.., Html)
escape_char(c) ==
    IF c = "<" THEN <<"&", "l", "t", ";">>
    ELSE IF c = ">" THEN <<"&", "g", "t", ";">>
    ELSE IF c = "&" THEN <<"&", "a", "m", "p", ";">>
    ELSE IF c = "\"" THEN <<"&", "q", "u", "o", "t", ";">>
    ELSE IF c = "'" THEN <<"&", "#", "x", "2", "7", ";">>
    ELSE <<c>>

RECURSIVE escape(_)
escape(str) == IF str = <<>> THEN <<>> ELSE escape_char(Head(str)) \o escape(Tail(str))

index_head ==
    << Blank("index"), Text("index", "# Index"), Blank("index"),
       Text("index", "columns"), Text("index", "rule") >>

index_row(name, glyph, duration) ==
    [sec |-> "index", kind |-> "row", name |-> name, glyph |-> glyph,
     duration |-> duration]

RECURSIVE index_rows(_, _)
index_rows(ts, opts) ==
    IF ts = <<>> THEN <<>>
    ELSE LET t == Head(ts)
             row == IF t.event = "started" THEN <<>>
                    ELSE IF t.event = "ok"
                    THEN <<index_row(make_linked_name(t.name), CheckMark,
                                     format_duration(opts, t.exec_time))>>
                    ELSE <<index_row(make_linked_name(t.name), CrossMark,
                                     format_duration(opts, t.exec_time))>>
         IN  row \o index_rows(Tail(ts), opts)

\* a faulty variant: the index lists the tests that passed only
render_index_ok_only(st, opts, w) ==
    writeln(w, <<Text("index", "<!--more-->")>> \o index_head
               \o index_rows(SelectSeq(st.tests, LAMBDA t : t.event # "failed"), opts))

render_index(st, opts, w) ==
    writeln(w, <<Text("index", "<!--more-->")>> \o index_head
               \o index_rows(st.tests, opts))

details_head == << Blank("details"), Blank("details"), Text("details", "# Details") >>

heading(h) == [sec |-> "details", kind |-> "heading", heading |-> h]

duration_line(duration) ==
    [sec |-> "details", kind |-> "duration", duration |-> duration]

output_block(text) ==
    << Blank("details"), Text("details", "<details>"), Blank("details"),
       Text("details", "<summary>"), Blank("details"), Text("details", "<pre>"),
       [sec |-> "details", kind |-> "stdout", text |-> text],
       Text("details", "</pre>"), Blank("details"), Text("details", "</details>") >>

\* a faulty variant: every failed test gets an output block
details_test_block_if_failed(t, opts) ==
    IF t.event = "started" THEN <<>>
    ELSE IF t.event = "ok"
    THEN << Blank("details"), heading(make_heading(t.name, CheckMark)),
            Blank("details"), duration_line(format_duration(opts, t.exec_time)) >>
    ELSE << Blank("details"), heading(make_heading(t.name, CrossMark)),
            Blank("details"), duration_line(format_duration(opts, t.exec_time)) >>
         \o output_block(escape(t.stdout))

\* the body of the for loop of render_details: one test
details_test(t, opts) ==
    IF t.event = "started" THEN <<>>
    ELSE IF t.event = "ok"
    THEN << Blank("details"), heading(make_heading(t.name, CheckMark)),
            Blank("details"), duration_line(format_duration(opts, t.exec_time)) >>
    ELSE << Blank("details"), heading(make_heading(t.name, CrossMark)),
            Blank("details"), duration_line(format_duration(opts, t.exec_time)) >>
         \o (IF t.stdout # <<>> THEN output_block(escape(t.stdout)) ELSE <<>>)

RECURSIVE details_tests(_, _)
details_tests(ts, opts) ==
    IF ts = <<>> THEN <<>>
    ELSE details_test(Head(ts), opts) \o details_tests(Tail(ts), opts)

render_details(st, opts, w) ==
    writeln(w, details_head \o details_tests(st.tests, opts))

\* a faulty variant: the summary option is not looked at
drop_full_always(st, opts, e, repo, w) ==
    Let(IF is_some(st.summary)
        THEN write_header(st, opts, unwrap(st.summary), e, repo, w)
        ELSE [ok |-> TRUE, out |-> <<>>, sink |-> w, rendered |-> 0],
        LAMBDA h :
            IF ~h.ok
            THEN [ok |-> FALSE, out |-> h.out, rendered |-> h.rendered,
                  expect |-> "Render header"]
            ELSE Let(render_index(st, opts, h.sink), LAMBDA i :
                     IF ~i.ok
                     THEN [ok |-> FALSE, out |-> h.out \o i.out,
                           rendered |-> h.rendered, expect |-> "Render index"]
                     ELSE Let(render_details(st, opts, i.sink), LAMBDA d :
                              [ok |-> d.ok, out |-> h.out \o i.out \o d.out,
                               rendered |-> h.rendered,
                               expect |-> IF d.ok THEN "none"
                                          ELSE "Render details"])))

\* a faulty variant: a failed header is not looked at (let _ = ..), the index
\* and the details are rendered after it
drop_goes_on(st, opts, e, repo, w) ==
    Let(IF is_some(st.summary)
        THEN write_header(st, opts, unwrap(st.summary), e, repo, w)
        ELSE [ok |-> TRUE, out |-> <<>>, sink |-> w, rendered |-> 0],
        LAMBDA h :
            Let(and_then(render_index(st, opts, h.sink),
                         details_head \o details_tests(st.tests, opts)),
                LAMBDA d :
                    [ok |-> h.ok /\ d.ok, out |-> h.out \o d.out,
                     rendered |-> h.rendered,
                     expect |-> IF ~h.ok THEN "Render header"
                                ELSE IF ~d.ok THEN "Render details" ELSE "none"]))

\* impl Drop for Processor: each step is .expect()ed, a failed one panics
drop(st, opts, e, repo, w) ==
    Let(IF is_some(st.summary)
        THEN write_header(st, opts, unwrap(st.summary), e, repo, w)
        ELSE [ok |-> TRUE, out |-> <<>>, sink |-> w, rendered |-> 0],
        LAMBDA h :
            IF ~h.ok
            THEN [ok |-> FALSE, out |-> h.out, rendered |-> h.rendered,
                  expect |-> "Render header"]
            ELSE IF ~opts.summary
            THEN Let(render_index(st, opts, h.sink), LAMBDA i :
                     IF ~i.ok
                     THEN [ok |-> FALSE, out |-> h.out \o i.out,
                           rendered |-> h.rendered, expect |-> "Render index"]
                     ELSE Let(render_details(st, opts, i.sink), LAMBDA d :
                              [ok |-> d.ok, out |-> h.out \o i.out \o d.out,
                               rendered |-> h.rendered,
                               expect |-> IF d.ok THEN "none"
                                          ELSE "Render details"]))
            ELSE [ok |-> TRUE, out |-> h.out, rendered |-> h.rendered,
                  expect |-> "none"])

(***************************************************************************)
(* main.rs: rendering of the Processor the crate root defines              *)
(***************************************************************************)
main_write_header(st, opts, s, e, repo, w) ==
    Let(writeln(w, (IF ~opts.disable_front_matter THEN front_matter(s, e) ELSE <<>>)
                   \o table(st, s, debug_duration(s.exec_time))),
        LAMBDA head :
            IF ~head.ok
            THEN [ok |-> FALSE, out |-> head.out, sink |-> head.sink, rendered |-> 0]
            ELSE Let(render_addons(opts.addons, repo, head.sink), LAMBDA a :
                     Let(and_then(a, job_link(e)
                                     \o <<Text("header", "<!-- more -->")>>),
                         LAMBDA l :
                             [ok |-> l.ok, out |-> head.out \o l.out, sink |-> l.sink,
                              rendered |-> a.rendered])))

main_make_heading(name, outcome) == <<outcome, " ">> \o name

main_make_name(name, outcome) ==
    [text |-> name, target |-> make_anchor(main_make_heading(name, outcome))]

RECURSIVE main_index_rows(_)
main_index_rows(ts) ==
    IF ts = <<>> THEN <<>>
    ELSE LET t == Head(ts)
             row == IF t.event = "started" THEN <<>>
                    ELSE IF t.event = "ok"
                    THEN <<index_row(main_make_name(t.name, CheckMark), CheckMark,
                                     debug_duration(t.exec_time))>>
                    ELSE <<index_row(main_make_name(t.name, CrossMark), CrossMark,
                                     debug_duration(t.exec_time))>>
         IN  row \o main_index_rows(Tail(ts))

main_render_index(st, w) == writeln(w, index_head \o main_index_rows(st.tests))

\* "## {heading}": the heading carries no anchor of its own
main_heading(name, outcome) ==
    heading([title |-> main_make_heading(name, outcome), id |-> None])

RECURSIVE main_details_tests(_)
main_details_tests(ts) ==
    IF ts = <<>> THEN <<>>
    ELSE LET t == Head(ts)
             one == IF t.event = "started" THEN <<>>
                    ELSE IF t.event = "ok"
                    THEN << Blank("details"), main_heading(t.name, CheckMark),
                            Blank("details"),
                            duration_line(debug_duration(t.exec_time)) >>
                    ELSE << Blank("details"), main_heading(t.name, CrossMark),
                            Blank("details"),
                            duration_line(debug_duration(t.exec_time)) >>
                         \o (IF t.stdout # <<>> THEN output_block(t.stdout) ELSE <<>>)
         IN  one \o main_details_tests(Tail(ts))

main_render_details(st, w) ==
    writeln(w, details_head \o main_details_tests(st.tests))

main_drop(st, opts, e, repo, w) ==
    Let(IF is_some(st.summary)
        THEN main_write_header(st, opts, unwrap(st.summary), e, repo, w)
        ELSE [ok |-> TRUE, out |-> <<>>, sink |-> w, rendered |-> 0],
        LAMBDA h :
            IF ~h.ok
            THEN [ok |-> FALSE, out |-> h.out, rendered |-> h.rendered,
                  expect |-> "Render header"]
            ELSE Let(main_render_index(st, h.sink), LAMBDA i :
                     IF ~i.ok
                     THEN [ok |-> FALSE, out |-> h.out \o i.out,
                           rendered |-> h.rendered, expect |-> "Render index"]
                     ELSE Let(main_render_details(st, i.sink), LAMBDA d :
                              [ok |-> d.ok, out |-> h.out \o i.out \o d.out,
                               rendered |-> h.rendered,
                               expect |-> IF d.ok THEN "none"
                                          ELSE "Render details"])))

\* the drop of the revision in use
do_drop(i, st, opts, e, repo, w) ==
    IF i = "main" THEN main_drop(st, opts, e, repo, w) ELSE drop(st, opts, e, repo, w)

(***************************************************************************)
(* The program: main() builds the options and the Processor, feeds it the  *)
(* lines, and drops it when the loop ends.                                 *)
(***************************************************************************)
GitInfo(required) == [addon |-> "git", required |-> required]

\* main pushes at most one addon, the git one
Addons == {<<>>} \cup {<<GitInfo(q)>> : q \in BOOLEAN}

\* ProcessOptions; the one of main.rs has neither summary nor precise: it
\* always renders the full report and prints durations with {:?}
Options(i) ==
    IF i = "main"
    THEN [disable_front_matter : BOOLEAN, addons : Addons, summary : {FALSE},
          precise : {TRUE}]
    ELSE [disable_front_matter : BOOLEAN, addons : Addons, summary : BOOLEAN,
          precise : BOOLEAN]

self == State(tests, test_count, summary)

\* no call was made on its own
NoCalls ==
    /\ anchor_in = <<>>
    /\ anchor_out = None
    /\ anchor_again = None
    /\ fmt_in = None
    /\ fmt_out = None

\* main has built the Processor, on a sink that holds one of faults
Started(faults) ==
    /\ impl \in {"main", "processor"}
    /\ options \in Options(impl)
    /\ sink_fault \in faults
    /\ panic_msg = "none"
    /\ tests = new.tests
    /\ test_count = new.test_count
    /\ summary = new.summary
    /\ write = <<>>
    /\ pc = "loop"
    /\ exit = "none"
    /\ ret = "none"
    /\ ingested = <<>>
    /\ calls = 0
    /\ env = None
    /\ repo_state = None
    /\ addon_calls = 0
    /\ NoCalls

\* no run of main is under way: a Processor as new makes it, never fed
NoRun ==
    /\ impl = "processor"
    /\ options = [disable_front_matter |-> FALSE, addons |-> <<>>,
                  summary |-> FALSE, precise |-> FALSE]
    /\ tests = new.tests
    /\ test_count = new.test_count
    /\ summary = new.summary
    /\ write = <<>>
    /\ pc = "loop"
    /\ exit = "none"
    /\ ret = "none"
    /\ ingested = <<>>
    /\ calls = 0
    /\ env = None
    /\ repo_state = None
    /\ addon_calls = 0
    /\ sink_fault = "none"
    /\ panic_msg = "none"

\* the sink is sound
Init == Started({"none"})

\* a faulty variant: the Processor is forgotten (std::mem::forget), not dropped
Dropped_forgotten(why, before) ==
    /\ write' = before
    /\ pc' = "done"
    /\ exit' = why
    /\ env' = None
    /\ repo_state' = None
    /\ addon_calls' = 0
    /\ panic_msg' = "none"

\* the Processor goes out of scope: drop renders the report
Dropped(why, before) ==
    \E e \in Envs, repo \in RepoStates :
        \E d \in {do_drop(impl, self, options, e, repo, sink_fault)} :
            /\ write' = before \o d.out
            /\ pc' = IF d.ok THEN "done" ELSE "aborted"
            /\ exit' = why
            /\ env' = IF is_some(summary) THEN Some(e) ELSE None
            /\ repo_state' = IF d.rendered > 0 THEN Some(repo) ELSE None
            /\ addon_calls' = d.rendered
            /\ panic_msg' = d.expect

\* processor.line(&line?)? with a line that was read
Line(l) ==
    /\ pc = "loop"
    /\ calls < MaxLines
    /\ \E r \in {line(impl, self, l)} :
           /\ ret' = r.ret
           /\ calls' = calls + 1
           /\ IF r.ret = "Ok"
              THEN /\ tests' = r.state.tests
                   /\ test_count' = r.state.test_count
                   /\ summary' = r.state.summary
                   /\ ingested' = IF from_str(l).res = "ok"
                                  THEN Append(ingested, from_str(l).record)
                                  ELSE ingested
                   /\ write' = write \o r.out
                   /\ UNCHANGED <<pc, exit, env, repo_state, addon_calls, panic_msg>>
              ELSE \* the panic unwinds main, which drops the Processor
                   /\ Dropped("panic", write \o r.out)
                   /\ UNCHANGED <<tests, test_count, summary, ingested>>
    /\ UNCHANGED <<impl, options, sink_fault, call_vars>>

\* record() handed an event
Record(r) ==
    /\ pc = "loop"
    /\ calls < MaxLines
    /\ \E n \in {do_record(impl, self, r)} :
           /\ tests' = n.tests
           /\ test_count' = n.test_count
           /\ summary' = n.summary
    /\ ret' = "Ok"
    /\ calls' = calls + 1
    /\ ingested' = Append(ingested, r)
    /\ UNCHANGED <<impl, options, write, pc, exit, env, repo_state, addon_calls,
                   sink_fault, panic_msg, call_vars>>

\* reader.lines() is exhausted: main returns Ok(())
EndOfInput ==
    /\ pc = "loop"
    /\ Dropped("eof", write)
    /\ UNCHANGED <<impl, options, tests, test_count, summary, ret, ingested, calls,
                   sink_fault, call_vars>>

\* reader.lines() yields an error: line? returns it from main
ReadError ==
    /\ pc = "loop"
    /\ Dropped("read_error", write)
    /\ UNCHANGED <<impl, options, tests, test_count, summary, ret, ingested, calls,
                   sink_fault, call_vars>>

Next ==
    \/ \E l \in Lines : Line(l)
    \/ \E r \in Records : Record(r)
    \/ EndOfInput
    \/ ReadError

Spec == Init /\ [][Next]_vars

(***************************************************************************)
(* format_duration called on its own, twice: by two Processors, each with  *)
(* its options, each for a duration that from_secs_f64 made of a number    *)
(* of seconds (given in thousandths)                                       *)
(***************************************************************************)
Millis == {0, 1, 200, 999, 1000, 1500, 1999, 2000, 61000, 3661500}

DurationInputs == [a : Options("processor"), b : Options("processor"),
                   x : Millis, y : Millis]

DurationInit ==
    /\ fmt_in \in {Some(i) : i \in DurationInputs}
    /\ fmt_out = None
    /\ anchor_in = <<>>
    /\ anchor_out = None
    /\ anchor_again = None
    /\ NoRun

\* self.format_duration(&duration) returns, for both
FormatDuration ==
    /\ fmt_out = None
    /\ \E i \in {unwrap(fmt_in)} :
           fmt_out' = Some(<<format_duration(i.a, from_secs_f64(i.x)),
                             format_duration(i.b, from_secs_f64(i.y))>>)
    /\ UNCHANGED <<run_vars, anchor_in, anchor_out, anchor_again, fmt_in>>

DurationNext == FormatDuration

SpecDuration == DurationInit /\ [][DurationNext]_vars

(***************************************************************************)
(* The same run on a sink that holds a fault, reading lines that give the  *)
(* report a summary and tests                                              *)
(***************************************************************************)
FaultInit == Started(SinkFaults \ {"none"})

FaultLines ==
    { JsonLine("suite", "failed", SuiteBody2),
      JsonLine("test", "ok", [name |-> JStr(NameA), exec_time |-> JF64(1500)]),
      JsonLine("test", "failed",
               [name |-> JStr(NameB), exec_time |-> JF64(200), stdout |-> JStr(Boom)]) }

FaultNext ==
    \/ \E l \in FaultLines : Line(l)
    \/ EndOfInput
    \/ ReadError

SpecFault == FaultInit /\ [][FaultNext]_vars

(***************************************************************************)
(* make_anchor called on its own, as test_anchors does: on the strings of  *)
(* the test and on every string of up to MaxAnchorLen characters           *)
(***************************************************************************)
FooBar == <<"f", "o", "o", " ", " ", "b", "a", "r">>
\* the shape of the second string of test_anchors: glyph, space, a path
GlyphPath == <<CheckMark, " ", "t", ":", ":", "r", ":", ":", "t", "_", "a">>

AnchorInputs ==
    UNION {[1..n -> Chars] : n \in 0..MaxAnchorLen} \cup {FooBar, GlyphPath}

AnchorInit ==
    /\ anchor_in \in AnchorInputs
    /\ anchor_out = None
    /\ anchor_again = None
    /\ fmt_in = None
    /\ fmt_out = None
    /\ NoRun

\* make_anchor(link) returns
MakeAnchor ==
    /\ anchor_out = None
    /\ anchor_out' = Some(make_anchor(anchor_in))
    /\ UNCHANGED <<run_vars, anchor_in, anchor_again, fmt_in, fmt_out>>

\* make_anchor(&anchor) returns, for the anchor the first call returned
MakeAnchorAgain ==
    /\ is_some(anchor_out)
    /\ anchor_again = None
    /\ anchor_again' = Some(make_anchor(unwrap(anchor_out)))
    /\ UNCHANGED <<run_vars, anchor_in, anchor_out, fmt_in, fmt_out>>

AnchorNext ==
    \/ MakeAnchor
    \/ MakeAnchorAgain

SpecAnchor == AnchorInit /\ [][AnchorNext]_vars

(***************************************************************************)
(* What was ingested, for stating the properties                           *)
(***************************************************************************)
IsSuiteResult(r) == r.type = "suite" /\ r.event \in {"ok", "failed"}
IsSuiteFailed(r) == r.type = "suite" /\ r.event = "failed"
IsSuiteOk(r) == r.type = "suite" /\ r.event = "ok"
IsSuiteStarted(r) == r.type = "suite" /\ r.event = "started"
IsTest(r) == r.type = "test"
IsRenderedTest(r) == r.type = "test" /\ r.event # "started"

SuiteResults == SelectSeq(ingested, IsSuiteResult)
SuiteStarts == SelectSeq(ingested, IsSuiteStarted)
TestEvents == SelectSeq(ingested, IsTest)
RenderedTests == SelectSeq(ingested, IsRenderedTest)

RECURSIVE SumOf(_, _)
SumOf(rs, f) == IF rs = <<>> THEN 0 ELSE rs[1][f] + SumOf(Tail(rs), f)

RECURSIVE SumOfTime(_)
SumOfTime(rs) ==
    IF rs = <<>> THEN Duration(0, 0)
    ELSE add_duration(rs[1].exec_time, SumOfTime(Tail(rs)))

\* the state after feeding the events rs, in order, to a new Processor
RECURSIVE Fed(_, _)
Fed(i, rs) ==
    IF rs = <<>> THEN new ELSE do_record(i, Fed(i, SubSeq(rs, 1, Len(rs) - 1)), rs[Len(rs)])

Reorderings(rs) ==
    { [k \in DOMAIN rs |-> rs[p[k]]] :
        p \in { q \in [DOMAIN rs -> DOMAIN rs] : \A a, b \in DOMAIN rs : q[a] = q[b] => a = b } }

Counts(s) == <<s.passed, s.failed, s.ignored, s.filtered_out, s.exec_time>>

Finalized == pc \in {"done", "aborted"}

Section(sec) == SelectSeq(write, LAMBDA w : w.sec = sec)
Kind(kind) == SelectSeq(write, LAMBDA w : w.kind = kind)

(***************************************************************************)
(* C1. Outcome stickiness: when the suite events ingested hold a Failed    *)
(* one, the summary's outcome at finalization is Failed, whatever their    *)
(* order.                                                                  *)
(***************************************************************************)
C1_OutcomeSticky ==
    (Finalized /\ \E k \in DOMAIN ingested : IsSuiteFailed(ingested[k]))
        => (is_some(summary) /\ unwrap(summary).outcome = Failed)

\* the same of the Processor of processor.rs alone
C1_OutcomeSticky_processor == impl = "processor" => C1_OutcomeSticky

(***************************************************************************)
(* C2. Summary merge sums: each count and exec_time of the summary is the  *)
(* sum of that field over the suite Ok/Failed events ingested, and every   *)
(* permutation of these events gives the same counts and exec_time.        *)
(***************************************************************************)
C2_MergeSums ==
    is_some(summary) =>
        /\ Counts(unwrap(summary)) =
               << SumOf(SuiteResults, "passed"), SumOf(SuiteResults, "failed"),
                  SumOf(SuiteResults, "ignored"), SumOf(SuiteResults, "filtered_out"),
                  SumOfTime(SuiteResults) >>
        /\ \A q \in Reorderings(SuiteResults) :
               Counts(unwrap(Fed(impl, q).summary)) = Counts(unwrap(summary))

\* the same of the Processor of processor.rs alone
C2_MergeSums_processor == impl = "processor" => C2_MergeSums

(***************************************************************************)
(* C3. test_count accumulates: it is absent when no suite Started event    *)
(* was ingested, and otherwise the sum of the test_count of every suite    *)
(* Started event ingested.                                                 *)
(***************************************************************************)
C3_TestCountAccumulates ==
    test_count = IF SuiteStarts = <<>> THEN None
                 ELSE Some(SumOf(SuiteStarts, "test_count"))

\* the same of the Processor of processor.rs alone
C3_TestCountAccumulates_processor == impl = "processor" => C3_TestCountAccumulates

(***************************************************************************)
(* C4. A line of each of the six type/event tags with well-formed fields   *)
(* decodes and is ingested (a suite ok line is merged into the summary);   *)
(* a line of any other tag combination is not.                             *)
(***************************************************************************)
SixTags(l) ==
    l.json /\ l.type \in {"suite", "test"} /\ l.event \in {"started", "ok", "failed"}

C4_SixTagsDecode ==
    [][\A l \in Lines : Line(l) =>
          /\ l \in WellFormedLines =>
                /\ ingested' # ingested
                /\ (l.type = "suite" /\ l.event = "ok") => summary' # summary
          /\ (l.json /\ ~SixTags(l)) => ingested' = ingested]_vars

\* the part of it that holds: the five tags event.rs declares, and the others
C4_DeclaredTagsDecode ==
    [][\A l \in Lines : Line(l) =>
          /\ (l \in WellFormedLines /\ ~(l.type = "suite" /\ l.event = "ok"))
                => ingested' # ingested
          /\ (l.json /\ ~SixTags(l)) => ingested' = ingested]_vars

(***************************************************************************)
(* C5. Summary presence: summary is present exactly when a suite Ok or     *)
(* suite Failed event has been ingested, and when it is absent at          *)
(* finalization no part of the header (front matter, summary table,        *)
(* addons, job link) is in the output.                                     *)
(***************************************************************************)
HeaderSections == {"front", "summary", "addon", "job", "header"}

C5_SummaryPresence ==
    /\ is_some(summary) <=> SuiteResults # <<>>
    /\ (Finalized /\ ~is_some(summary)) =>
           \A k \in DOMAIN write : write[k].sec \notin HeaderSections

\* events were ingested, none of them a suite result, and the report was
\* written without a header
C5_Witness ==
    /\ pc = "done" /\ ~is_some(summary)
    /\ ingested # <<>> /\ write # <<>>

(***************************************************************************)
(* C6. In a full report the index has one row per test event that is not   *)
(* Started, in the order the events were ingested; Started test events are *)
(* stored in tests and give no row. (A report is full when summary-only is *)
(* off and no rendering step failed.)                                      *)
(***************************************************************************)
FullReport == pc = "done" /\ ~options.summary

GlyphOf(t) == IF t.event = "ok" THEN CheckMark ELSE CrossMark

C6_IndexRows ==
    /\ tests = TestEvents
    /\ FullReport =>
           LET rows == Kind("row")
           IN  /\ Len(rows) = Len(RenderedTests)
               /\ \A k \in DOMAIN rows :
                      /\ rows[k].name.text = RenderedTests[k].name
                      /\ rows[k].glyph = GlyphOf(RenderedTests[k])

\* a Started test event and another one were ingested: one row
C6_Witness ==
    /\ FullReport
    /\ Len(tests) = 2 /\ tests[1].event = "started"
    /\ Len(Kind("row")) = 1

(***************************************************************************)
(* C7. In a full report the details have one heading per test event that   *)
(* is not Started, in the order of the index rows; the k-th heading        *)
(* carries an anchor, which is the link target of the k-th index row, and  *)
(* both are make_anchor of the raw test name.                              *)
(***************************************************************************)
C7_IndexDetailsAnchors ==
    FullReport =>
        LET rows == Kind("row")
            heads == Kind("heading")
        IN  /\ Len(heads) = Len(RenderedTests)
            /\ Len(rows) = Len(heads)
            /\ \A k \in DOMAIN heads :
                   /\ heads[k].heading.id = Some(rows[k].name.target)
                   /\ rows[k].name.target = make_anchor(RenderedTests[k].name)

\* the same of the Processor of processor.rs alone
C7_IndexDetailsAnchors_processor == impl = "processor" => C7_IndexDetailsAnchors

(***************************************************************************)
(* C8. A line that fails to decode is not fatal: line() returns Ok(()),    *)
(* tests, test_count and summary stay as they were, nothing is written and *)
(* the line loop goes on.                                                  *)
(***************************************************************************)
C8_UndecodableLineSkipped ==
    [][\A l \in Lines : (from_str(l).res = "err" /\ Line(l)) =>
          /\ ret' = "Ok"
          /\ agg' = agg
          /\ ingested' = ingested
          /\ write' = write
          /\ pc' = "loop"]_vars

\* a call of line() ingested nothing, and the report was written all the same
C8_Witness ==
    /\ calls > Len(ingested) /\ ret = "Ok"
    /\ pc = "done" /\ exit = "eof" /\ write # <<>>

(***************************************************************************)
(* C9. Summary-only: with the summary option on, finalization writes no    *)
(* index and no details; what it writes belongs to the header (front       *)
(* matter, summary table, addons, job link).                               *)
(***************************************************************************)
C9_SummaryOnly ==
    (options.summary /\ Finalized) =>
        \A k \in DOMAIN write : write[k].sec \in {"front", "summary", "addon", "job"}

\* summary-only, with a summary and a test to report
C9_Witness ==
    /\ options.summary /\ pc = "done"
    /\ is_some(summary) /\ RenderedTests # <<>>
    /\ Section("summary") # <<>>

(***************************************************************************)
(* C10. Ingestion writes nothing: the sink changes only in the step that   *)
(* drops the Processor, which ends the line loop and leaves the            *)
(* aggregation state as it is.                                             *)
(***************************************************************************)
C10_IngestionWritesNothing ==
    [][write' # write =>
          /\ pc = "loop" /\ pc' # "loop"
          /\ agg' = agg
          /\ ingested' = ingested]_vars

\* events were ingested and the report was written at the end
C10_Witness ==
    /\ pc = "done" /\ ingested # <<>> /\ calls = Len(ingested)
    /\ write # <<>>

(***************************************************************************)
(* C11. Finalization happens exactly once per run, on each exit path of    *)
(* the line loop: every step is taken inside the loop, the step that       *)
(* leaves it (input exhausted, or a read error returned early) appends     *)
(* the report rendered from the aggregation state to the sink and leaves   *)
(* that state alone, and no step follows it.                               *)
(***************************************************************************)
C11_FinalizedOnce ==
    [][/\ pc = "loop"
       /\ pc' = "loop" <=> exit' = "none"
       /\ pc' = "loop" => write' = write
       /\ exit' \in {"eof", "read_error"} =>
              /\ agg' = agg
              /\ \E e \in Envs, repo \in RepoStates :
                     \E d \in {do_drop(impl, self, options, e, repo, sink_fault)} :
                         /\ write' = write \o d.out
                         /\ pc' = IF d.ok THEN "done" ELSE "aborted"]_vars

\* the loop ended early on a read error and the report of what had been
\* ingested until then was written
C11_Witness ==
    /\ exit = "read_error" /\ pc = "done"
    /\ ingested # <<>> /\ Section("details") # <<>> /\ Section("summary") # <<>>

(***************************************************************************)
(* C12. Section order: what the sink holds is ordered front matter,        *)
(* summary table, addon fragments, job link, index, details; no item of a  *)
(* section comes before an item of a section that precedes it.             *)
(***************************************************************************)
\* the place of a section in the report; "header" is the <!-- more --> line
\* main.rs ends its header with
SectionRank(sec) ==
    CASE sec = "front" -> 1
      [] sec = "summary" -> 2
      [] sec = "addon" -> 3
      [] sec = "job" -> 4
      [] sec = "header" -> 5
      [] sec = "index" -> 6
      [] sec = "details" -> 7
      [] OTHER -> 0

C12_SectionOrder ==
    \A i, j \in DOMAIN write :
        i < j => /\ SectionRank(write[i].sec) > 0
                 /\ SectionRank(write[i].sec) <= SectionRank(write[j].sec)

\* a report with all six sections
C12_Witness ==
    /\ pc = "done"
    /\ \A sec \in {"front", "summary", "addon", "job", "index", "details"} :
           Section(sec) # <<>>
    /\ Kind("git") # <<>> /\ Kind("row") # <<>>

(***************************************************************************)
(* C13. Addon invocation. As claimed: for every ingested event sequence,   *)
(* a finalized run has invoked each registered addon exactly once.         *)
(***************************************************************************)
C13_AddonsOncePerReport ==
    Finalized => addon_calls = Len(options.addons)

(***************************************************************************)
(* C13, amended. The addons are invoked by the header: a finalized run     *)
(* with a summary has invoked each registered addon exactly once, what     *)
(* the addons wrote lies after the summary table and before the job link;  *)
(* a run without a summary has invoked no addon and holds no addon text.   *)
(***************************************************************************)
C13_AddonsOncePerHeader ==
    Finalized =>
        /\ addon_calls = IF is_some(summary) THEN Len(options.addons) ELSE 0
        /\ Len(Kind("git")) <= addon_calls
        /\ (addon_calls > 0 /\ pc = "done") =>
               /\ Section("addon") # <<>>
               /\ (unwrap(repo_state) \in {"no_target", "no_commit", "commit"}) =>
                      Len(Kind("git")) = addon_calls
        /\ addon_calls = 0 => Section("addon") = <<>>
        /\ \A k \in DOMAIN write :
               write[k].sec = "addon" =>
                   /\ \E i \in 1..(k - 1) : write[i].kind = "table"
                   /\ \A j \in DOMAIN write :
                          write[j].sec = "job" => k < j

\* the git addon was invoked once between the table and the job link
C13_Witness ==
    /\ pc = "done" /\ is_some(summary)
    /\ Len(options.addons) = 1 /\ addon_calls = 1
    /\ repo_state = Some("commit") /\ Len(Kind("git")) = 1
    /\ Section("job") # <<>>

(***************************************************************************)
(* C14. Addon failure: when the git addon fails, a required one makes the  *)
(* rendering fail (the drop panics, nothing follows the header), and an    *)
(* optional one is swallowed: the blank line after the addon, the job      *)
(* link, the index and the details follow as after a success.              *)
(***************************************************************************)
\* the repository states render_git returns an error for
FailingRepo == {"no_repo", "no_remote", "no_head", "no_commit"}

AfterHeader == {"job", "header", "index", "details"}

C14_AddonFailure ==
    (Finalized /\ addon_calls > 0 /\ unwrap(repo_state) \in FailingRepo) =>
           IF options.addons[1].required
           THEN /\ pc = "aborted"
                /\ \A k \in DOMAIN write : write[k].sec \notin AfterHeader
           ELSE /\ pc = "done"
                /\ Section("addon") # <<>>
                /\ Section("addon")[Len(Section("addon"))] = Blank("addon")
                /\ Section("job") # <<>> <=> (unwrap(env).run_id /\ unwrap(env).repository)
                /\ ~options.summary =>
                       /\ Section("index") # <<>>
                       /\ Section("details") # <<>>

\* an optional git addon found no repository and the report went on
C14_Witness ==
    /\ pc = "done" /\ addon_calls = 1
    /\ ~options.addons[1].required
    /\ repo_state = Some("no_repo")
    /\ Section("job") # <<>> /\ Section("index") # <<>>

(***************************************************************************)
(* C15. No partial fragment: when an optional addon fails, whichever step  *)
(* of it fails, the sink holds none of that addon's text: of the addon     *)
(* section there is only the blank line the header writes after an addon.  *)
(***************************************************************************)
C15_NoPartialFragment ==
    (Finalized /\ addon_calls > 0 /\ ~options.addons[1].required
        /\ unwrap(repo_state) \in FailingRepo) =>
        /\ Kind("git") = <<>>
        /\ Section("addon") = <<Blank("addon")>>

\* C15 for the steps that fail before the first write: open the repository,
\* find the remote, read the head
C15_NoFragmentBeforeFirstWrite ==
    (Finalized /\ addon_calls > 0 /\ ~options.addons[1].required
        /\ unwrap(repo_state) \in {"no_repo", "no_remote", "no_head"}) =>
        /\ Kind("git") = <<>>
        /\ Section("addon") = <<Blank("addon")>>

(***************************************************************************)
(* C16. make_anchor, character by character: '_' and alphanumerics are     *)
(* emitted as they are and clear the dash flag; a space or '-' emits one   *)
(* '-' only when the flag is clear, and sets it; any other character is    *)
(* dropped and leaves the flag alone. The flag is clear at the start.      *)
(* anchor("") = "", anchor("foo  bar") = "foo-bar", and a glyph, a space   *)
(* and words give one leading dash and the words.                          *)
(***************************************************************************)
IsKept(c) == c = "_" \/ c \in Alphanumeric
IsSeparator(c) == c = " " \/ c = "-"

\* the dash flag after the characters of s: some separator of s has no
\* emitted character after it
DashFlag(s) ==
    \E k \in DOMAIN s :
        /\ IsSeparator(s[k])
        /\ \A j \in (k + 1)..Len(s) : ~IsKept(s[j])

\* what the rules emit for character c when the flag is flag
Emitted(c, flag) ==
    IF IsKept(c) THEN <<c>>
    ELSE IF IsSeparator(c) /\ ~flag THEN <<"-">>
    ELSE <<>>

RECURSIVE AnchorByRules(_)
AnchorByRules(s) ==
    IF s = <<>> THEN <<>>
    ELSE LET front == SubSeq(s, 1, Len(s) - 1)
         IN  AnchorByRules(front) \o Emitted(s[Len(s)], DashFlag(front))

C16_AnchorRules ==
    is_some(anchor_out) =>
        /\ unwrap(anchor_out) = AnchorByRules(anchor_in)
        /\ anchor_in = <<>> => unwrap(anchor_out) = <<>>
        /\ anchor_in = FooBar =>
               unwrap(anchor_out) = <<"f", "o", "o", "-", "b", "a", "r">>
        /\ anchor_in = GlyphPath =>
               unwrap(anchor_out) = <<"-", "t", "r", "t", "_", "a">>
        /\ \A k \in DOMAIN unwrap(anchor_out) :
               /\ IsKept(unwrap(anchor_out)[k]) \/ unwrap(anchor_out)[k] = "-"
               /\ k > 1 => ~(unwrap(anchor_out)[k] = "-" /\ unwrap(anchor_out)[k - 1] = "-")

\* runs of separators, with dropped characters between them, collapsed
C16_Witness ==
    /\ anchor_in = <<" ", ":", "-">>
    /\ anchor_out = Some(<<"-">>)

(***************************************************************************)
(* C17. Job link: a report whose rendering succeeded holds the job link    *)
(* (one link line and a blank line) exactly when the header was rendered   *)
(* and the environment gave both the repository id and the run id; with    *)
(* either missing there is no link and the rendering still succeeds.       *)
(***************************************************************************)
BothIds == is_some(env) /\ unwrap(env).repository /\ unwrap(env).run_id

C17_JobLink ==
    /\ is_some(env) <=> (Finalized /\ is_some(summary))
    /\ pc = "done" =>
           /\ Section("job") # <<>> <=> (is_some(summary) /\ BothIds)
           /\ Section("job") # <<>> =>
                  /\ Len(Section("job")) = 2
                  /\ Section("job")[1].kind = "link"
                  /\ Section("job")[2] = Blank("job")
    /\ (Finalized /\ ~BothIds) => Section("job") = <<>>

\* the run id is missing: a header without link, and the report goes on
C17_Witness ==
    /\ pc = "done" /\ is_some(summary)
    /\ env = Some([run_id |-> FALSE, repository |-> TRUE])
    /\ Section("job") = <<>>
    /\ Section("summary") # <<>> /\ Section("index") # <<>>

(***************************************************************************)
(* C18. Details output block: in a full report the details section is the  *)
(* head and then, per test result in order, a heading and a duration       *)
(* line, followed by a collapsible block with the captured output exactly  *)
(* when the test failed and its output is not empty. Ok tests, and failed  *)
(* tests whose output is empty or was absent from the line, have no block. *)
(***************************************************************************)
HasOutput(t) == t.event = "failed" /\ t.stdout # <<>>

BlockKinds ==
    << "blank", "<details>", "blank", "<summary>", "blank", "<pre>", "stdout",
       "</pre>", "blank", "</details>" >>

RECURSIVE DetailKinds(_)
DetailKinds(ts) ==
    IF ts = <<>> THEN <<>>
    ELSE << "blank", "heading", "blank", "duration" >>
         \o (IF HasOutput(Head(ts)) THEN BlockKinds ELSE <<>>)
         \o DetailKinds(Tail(ts))

KindsOf(items) == [k \in DOMAIN items |-> items[k].kind]

C18_OutputBlock ==
    FullReport =>
        /\ KindsOf(Section("details")) =
               << "blank", "blank", "# Details" >> \o DetailKinds(RenderedTests)
        /\ Len(Kind("stdout")) = Len(SelectSeq(RenderedTests, HasOutput))
        /\ \A k \in DOMAIN Kind("stdout") : Kind("stdout")[k].text # <<>>

\* two failed tests, one with captured output and one without
C18_Witness ==
    /\ FullReport
    /\ Len(RenderedTests) = 2
    /\ \A k \in 1..2 : RenderedTests[k].event = "failed"
    /\ Len(SelectSeq(RenderedTests, HasOutput)) = 1
    /\ Len(Kind("stdout")) = 1

(***************************************************************************)
(* C19. Front matter option. As claimed: for every ingested event          *)
(* sequence, a finalized run's report holds the front-matter block exactly *)
(* when disable-front-matter is off.                                       *)
(***************************************************************************)
C19_FrontMatterByOption ==
    Finalized => (Section("front") # <<>> <=> ~options.disable_front_matter)

(***************************************************************************)
(* C19, amended. The front matter belongs to the header: a finalized       *)
(* run's report holds the front-matter block, as its first lines, exactly  *)
(* when disable-front-matter is off and a summary exists; with the option  *)
(* on, or without a summary, the report holds no front-matter line.        *)
(***************************************************************************)
FrontKinds ==
    << "---", "title", "date", "categories", "excerpt_separator", "---", "blank" >>

C19_FrontMatterInHeader ==
    Finalized =>
        /\ Section("front") # <<>> <=>
               (~options.disable_front_matter /\ is_some(summary))
        /\ Section("front") # <<>> =>
               /\ KindsOf(Section("front")) = FrontKinds
               /\ SubSeq(write, 1, Len(FrontKinds)) = Section("front")

\* the option is off and a summary exists: the report starts with the block
C19_Witness ==
    /\ pc = "done" /\ ~options.disable_front_matter /\ is_some(summary)
    /\ Len(write) > Len(FrontKinds)
    /\ KindsOf(SubSeq(write, 1, Len(FrontKinds))) = FrontKinds
    /\ write[Len(FrontKinds) + 1].kind = "table"

(***************************************************************************)
(* C20. Front-matter title. As claimed: the title is the outcome glyph     *)
(* and the CI run identifier read from the environment, or a placeholder   *)
(* when the identifier is absent.                                          *)
(***************************************************************************)
C20_TitleFromRunId ==
    \A k \in DOMAIN write :
        write[k].kind = "title" =>
            /\ write[k].glyph = Glyph(unwrap(summary).outcome)
            /\ write[k].suffix =
                   IF unwrap(env).run_id THEN "GITHUB_RUN_ID" ELSE "placeholder"

(***************************************************************************)
(* C20, amended. The title is the outcome glyph of the summary, the words  *)
(* "Test Result" and the time of rendering, the same time the date line    *)
(* of the block carries; it is the same whether or not the environment     *)
(* gives a run identifier. A front-matter block holds exactly one title.   *)
(***************************************************************************)
C20_TitleFromOutcomeAndDate ==
    /\ Len(Kind("title")) = IF Section("front") # <<>> THEN 1 ELSE 0
    /\ \A k \in DOMAIN write :
           write[k].kind = "title" =>
               /\ is_some(summary) /\ is_some(env)
               /\ write[k].glyph = Glyph(unwrap(summary).outcome)
               /\ write[k].text = "Test Result"
               /\ write[k].suffix = "Utc::now"
               /\ write[k + 1].kind = "date"
               /\ write[k + 1].date = write[k].suffix

\* a failed suite, rendered where the environment gives a run id
C20_Witness ==
    /\ Finalized /\ is_some(summary) /\ unwrap(summary).outcome = Failed
    /\ is_some(env) /\ unwrap(env).run_id
    /\ Len(Kind("title")) = 1
    /\ Kind("title")[1].glyph = CrossMark
    /\ Kind("title")[1].suffix = "Utc::now"


(***************************************************************************)
(* C21. A rendering failure during finalization is fatal and not retried:  *)
(* the drop panics exactly when one of its three steps returned an error;  *)
(* when the header failed (a write of it failed, or a required addon's     *)
(* error was propagated) the sink holds neither index nor details; when    *)
(* the index failed it holds no details; the line whose write failed is    *)
(* not in the sink.                                                        *)
(***************************************************************************)
C21_RenderFailureFatal ==
    Finalized =>
        /\ pc = "aborted" <=> panic_msg # "none"
        /\ panic_msg = "Render header" =>
               \A k \in DOMAIN write : write[k].sec \notin {"index", "details"}
        /\ panic_msg = "Render index" => Section("details") = <<>>
        \* the table is the one line every header has
        /\ (is_some(summary) /\ sink_fault = "summary") =>
               /\ panic_msg = "Render header"
               /\ Section("summary") = <<>>
        /\ (is_some(summary) /\ sink_fault = "front"
               /\ ~options.disable_front_matter) =>
               /\ panic_msg = "Render header"
               /\ write = <<>>
        /\ (addon_calls > 0 /\ options.addons[1].required
               /\ unwrap(repo_state) \in FailingRepo) =>
               panic_msg = "Render header"
        /\ (sink_fault = "index" /\ ~options.summary
               /\ panic_msg # "Render header") =>
               /\ panic_msg = "Render index"
               /\ Section("index") = <<>>
        /\ (sink_fault = "details" /\ ~options.summary
               /\ panic_msg # "Render header") =>
               /\ panic_msg = "Render details"
               /\ Section("details") = <<>>

\* the write of the summary table failed with tests to report: the sink holds
\* the front matter and nothing else
C21_Witness ==
    /\ pc = "aborted" /\ panic_msg = "Render header"
    /\ sink_fault = "summary" /\ ~options.summary
    /\ RenderedTests # <<>>
    /\ write = Section("front") /\ write # <<>>


(***************************************************************************)
(* C22. Duration rendering: two calls in the same precision mode for the   *)
(* same duration return the same string, whatever the other options and    *)
(* whichever Processor; and in the non-precise mode two durations with     *)
(* the same whole seconds return the same string.                          *)
(***************************************************************************)
C22_DurationDeterministic ==
    is_some(fmt_out) =>
        LET i == unwrap(fmt_in)
            o == unwrap(fmt_out)
        IN  /\ (i.a.precise = i.b.precise /\ i.x = i.y) => o[1] = o[2]
            /\ (~i.a.precise /\ ~i.b.precise /\ i.x \div 1000 = i.y \div 1000) =>
                   o[1] = o[2]
            /\ (~i.a.precise /\ i.x \div 1000 = 1) =>
                   o[1].items = <<[n |-> 1, unit |-> "s"]>>

\* 1.5 s and 1.999 s, not precise, under different other options: both "1s"
C22_Witness ==
    /\ is_some(fmt_out)
    /\ unwrap(fmt_in).x = 1500 /\ unwrap(fmt_in).y = 1999
    /\ ~unwrap(fmt_in).a.precise /\ ~unwrap(fmt_in).b.precise
    /\ unwrap(fmt_in).a # unwrap(fmt_in).b
    /\ unwrap(fmt_out)[1] = unwrap(fmt_out)[2]
    /\ unwrap(fmt_out)[1].items = <<[n |-> 1, unit |-> "s"]>>


(***************************************************************************)
(* C23. Frame of ingestion: the step that ingests a test event appends     *)
(* that one event to tests and leaves the events before it, test_count     *)
(* and summary as they are; a suite Started event leaves tests and summary *)
(* as they are; a suite Ok or Failed event leaves tests and test_count as  *)
(* they are.                                                               *)
(***************************************************************************)
C23_IngestionFrame ==
    [][ingested' # ingested =>
          LET r == ingested'[Len(ingested')]
          IN  /\ ingested' = Append(ingested, r)
              /\ IsTest(r) =>
                     /\ Len(tests') = Len(tests) + 1
                     /\ SubSeq(tests', 1, Len(tests)) = tests
                     /\ tests'[Len(tests')].name = r.name
                     /\ tests'[Len(tests')].event = r.event
                     /\ test_count' = test_count
                     /\ summary' = summary
              /\ IsSuiteStarted(r) =>
                     /\ tests' = tests
                     /\ summary' = summary
                     /\ is_some(test_count')
              /\ IsSuiteResult(r) =>
                     /\ tests' = tests
                     /\ test_count' = test_count
                     /\ is_some(summary')]_vars

\* a test, then a suite Started: the test is still there, and only it
C23_Witness ==
    /\ pc = "loop" /\ Len(ingested) = 2
    /\ IsTest(ingested[1]) /\ IsSuiteStarted(ingested[2])
    /\ tests = <<ingested[1]>>
    /\ test_count = Some(ingested[2].test_count)
    /\ summary = None


(***************************************************************************)
(* C24. make_anchor is idempotent and its output is well-formed: an anchor *)
(* holds only alphanumerics, '_' and '-', no two '-' are adjacent, and     *)
(* make_anchor of an anchor is that anchor.                                *)
(***************************************************************************)
WellFormedAnchor(s) ==
    /\ \A k \in DOMAIN s : s[k] \in Alphanumeric \cup {"_", "-"}
    /\ \A k \in 1..(Len(s) - 1) : ~(s[k] = "-" /\ s[k + 1] = "-")

C24_AnchorIdempotent ==
    /\ is_some(anchor_out) => WellFormedAnchor(unwrap(anchor_out))
    /\ is_some(anchor_again) => anchor_again = anchor_out

\* separators around a dropped character: one dash, and again one dash
C24_Witness ==
    /\ anchor_in = <<" ", ":", "-">>
    /\ anchor_out = Some(<<"-">>)
    /\ anchor_again = anchor_out

====
